---- MODULE Spec2Model ----
(***************************************************************************)
(* A model of the ELF64 reader of the linker crate: ObjectFile::from_reader *)
(* (src/linker/src/inputs.rs), the identification-block and file-header    *)
(* decoders (src/linker/src/elf.rs) and the lazy section-header and        *)
(* program-header iterators.                                               *)
(*                                                                         *)
(* Bytes are naturals in 0..255.  A fixed-width unsigned integer (u16, u32, *)
(* u64) is a numeral: the sequence of its base-256 digits, most            *)
(* significant digit first, because the 32- and 64-bit values of the       *)
(* format do not fit the integers of the model checker.  Decoding a        *)
(* little-endian field therefore reverses the bytes of the file.           *)
(***************************************************************************)
EXTENDS Integers, Sequences, FiniteSets, TLC

VARIABLES
    stream,         \* the bytes the byte source holds (the reader's content)
    rpos,           \* how many bytes of the source have been consumed
    pc,             \* from_reader's position: "ident", "left", "tail", "done"
    ident,          \* the filled prefix ident[..count] of the 16-byte buffer
    elfIdent,       \* the ElfIdent decoded from it (from_reader rebinds ident)
    left,           \* the filled prefix left[..count] of the 48-byte buffer
    header,         \* the decoded Elf64Header
    data,           \* the Vec<u8> that read_to_end fills
    result,         \* what from_reader returned
    ioErr,          \* the last I/O error the source reported (NoIoErr if none)
    readsAfterErr,  \* reads issued on the source since that error
    shIt,           \* the SectionHeaderIter held by the caller
    shOut,          \* what the pulls on shIt returned, in order
    phIt,           \* the ProgramHeaderIter held by the caller
    phOut,          \* what the pulls on phIt returned, in order
    panicked,       \* a slice index went out of range (the thread panicked)
    chunked,        \* a read of the header bytes returned fewer than it could
    shIt2,          \* a second SectionHeaderIter held by the caller
    shOut2,         \* what the pulls on shIt2 returned, in order
    phIt2,          \* a second ProgramHeaderIter held by the caller
    phOut2          \* what the pulls on phIt2 returned, in order

vars == <<stream, rpos, pc, ident, elfIdent, left, header, data, result, ioErr,
          readsAfterErr, shIt, shOut, phIt, phOut, panicked, chunked, shIt2,
          shOut2, phIt2, phOut2>>

-----------------------------------------------------------------------------
(* Bounds of the model.                                                    *)

\* A short read delivers MaxChunk bytes (or all that fits, if fewer).
MaxChunk == 11
\* Reads the model follows after an I/O error of the source.
MaxReadsAfterErr == 1
\* Pulls the caller makes on its iterators, in all.
MaxPulls == 4
\* Table entries an input stream holds.
MaxEntries == 2

-----------------------------------------------------------------------------
(* Sizes: mem::size_of of the four structures.                             *)

IdentSize == 16
HeaderSize == 64
SectionHeaderSize == 64
ProgramHeaderSize == 56

-----------------------------------------------------------------------------
(* Results and sequences.                                                  *)

Ok(v) == [ok |-> TRUE, val |-> v]
Err(m) == [ok |-> FALSE, err |-> m]

Min(a, b) == IF a <= b THEN a ELSE b

\* s[from..], 0-based as in the source: the bytes after the first `from`.
SliceFrom(s, from) == SubSeq(s, from + 1, Len(s))

\* s[from..to], 0-based, `to` exclusive.
Slice(s, from, to) == SubSeq(s, from + 1, to)

Reverse(s) == [i \in 1..Len(s) |-> s[Len(s) + 1 - i]]

Zeros(n) == [i \in 1..n |-> 0]

-----------------------------------------------------------------------------
(* util.rs / inputs.rs: the byte-reader primitive.                         *)

\* uN::from_be_bytes, taken for from_le_bytes.
from_be_bytes(bytes) == bytes

\* uN::from_le_bytes: the numeral of w little-endian bytes.
from_le_bytes(bytes) == Reverse(bytes)

\* FromBytes::read_le_bytes for a w-byte integer: split_at(w), decode the
\* front, leave the rest in the cursor.
read_le_bytes(input, w) ==
    [val |-> from_le_bytes(SubSeq(input, 1, w)),
     rest |-> SubSeq(input, w + 1, Len(input))]

\* The cursor after reading fields of the widths ws, in order.
RECURSIVE Skip(_, _)
Skip(input, ws) ==
    IF ws = <<>> THEN input
    ELSE Skip(read_le_bytes(input, Head(ws)).rest, Tail(ws))

\* The k-th field read from a cursor by successive read_le_bytes calls of the
\* widths ws.
Field(input, ws, k) ==
    read_le_bytes(Skip(input, SubSeq(ws, 1, k - 1)), ws[k]).val

-----------------------------------------------------------------------------
(* Formatting: {} of a usize and {:x} of an unsigned integer.              *)

DecDigit(d) ==
    CASE d = 0 -> "0" [] d = 1 -> "1" [] d = 2 -> "2" [] d = 3 -> "3"
      [] d = 4 -> "4" [] d = 5 -> "5" [] d = 6 -> "6" [] d = 7 -> "7"
      [] d = 8 -> "8" [] d = 9 -> "9"

RECURSIVE FormatDec(_)
FormatDec(n) ==
    IF n < 10 THEN DecDigit(n) ELSE FormatDec(n \div 10) \o DecDigit(n % 10)

HexDigit(d) ==
    CASE d < 10 -> DecDigit(d)
      [] d = 10 -> "a" [] d = 11 -> "b" [] d = 12 -> "c"
      [] d = 13 -> "d" [] d = 14 -> "e" [] d = 15 -> "f"

\* The hexadecimal digits of a numeral, two per base-256 digit.
RECURSIVE Nibbles(_)
Nibbles(num) ==
    IF num = <<>> THEN <<>>
    ELSE <<Head(num) \div 16, Head(num) % 16>> \o Nibbles(Tail(num))

RECURSIVE StripZeros(_)
StripZeros(ds) ==
    IF Len(ds) > 1 /\ Head(ds) = 0 THEN StripZeros(Tail(ds)) ELSE ds

RECURSIVE HexString(_)
HexString(ds) ==
    IF ds = <<>> THEN "" ELSE HexDigit(Head(ds)) \o HexString(Tail(ds))

\* format!("{:x}", v): lower-case hexadecimal without leading zeros.
FormatHex(num) == HexString(StripZeros(Nibbles(num)))

-----------------------------------------------------------------------------
(* Bit operations on bytes and numerals.                                   *)

RECURSIVE ByteAnd(_, _)
ByteAnd(a, b) ==
    IF a = 0 \/ b = 0 THEN 0
    ELSE (a % 2) * (b % 2) + 2 * ByteAnd(a \div 2, b \div 2)

\* a & b on numerals of the same width.
NumAnd(a, b) == [i \in 1..Len(a) |-> ByteAnd(a[i], b[i])]

IsZero(num) == \A i \in 1..Len(num) : num[i] = 0

\* A numeral as a natural number, exact below 2^24 and saturating at 2^24
\* above it (every buffer of the model is far shorter).
Huge == 16777216
RECURSIVE LowValue(_)
LowValue(num) ==
    IF num = <<>> THEN 0
    ELSE LowValue(SubSeq(num, 1, Len(num) - 1)) * 256 + num[Len(num)]
ToNat(num) ==
    IF Len(num) > 3 /\ ~IsZero(SubSeq(num, 1, Len(num) - 3)) THEN Huge
    ELSE LowValue(SubSeq(num, Len(num) - Min(Len(num), 3) + 1, Len(num)))

-----------------------------------------------------------------------------
(* elf.rs: the closed enumerations (impl_enum_try_from!).  A table pairs   *)
(* each discriminant with its variant; try_from fails on any other value.  *)

ElfClassTable == {<<0, "None">>, <<1, "Class32">>, <<2, "Class64">>}

EncodingTable == {<<0, "None">>, <<1, "LSB2">>, <<2, "MSB2">>}

ElfVersionTable == {<<0, "None">>, <<1, "Current">>}

OsAbiTable == {<<0, "SysV">>, <<1, "HpUx">>, <<255, "Standalone">>}

ObjectFileTypeTable ==
    {<<<<0, 0>>, "None">>, <<<<0, 1>>, "Rel">>, <<<<0, 2>>, "Exec">>,
     <<<<0, 3>>, "Dyn">>, <<<<0, 4>>, "Core">>}

MachineTable ==
    {<<<<0, 0>>, "None">>, <<<<0, 1>>, "M32">>, <<<<0, 2>>, "Sparc">>,
     <<<<0, 3>>, "I386">>, <<<<0, 4>>, "Motorola68K">>,
     <<<<0, 5>>, "Motorola88K">>, <<<<0, 7>>, "I860">>, <<<<0, 8>>, "Mips">>,
     <<<<0, 62>>, "X86_64">>}

SectionTypeTable ==
    {<<<<0, 0, 0, 0>>, "Null">>, <<<<0, 0, 0, 1>>, "Progbits">>,
     <<<<0, 0, 0, 2>>, "Symtab">>, <<<<0, 0, 0, 3>>, "Strtab">>,
     <<<<0, 0, 0, 4>>, "Rela">>, <<<<0, 0, 0, 5>>, "Hash">>,
     <<<<0, 0, 0, 6>>, "Dynamic">>, <<<<0, 0, 0, 7>>, "Note">>,
     <<<<0, 0, 0, 8>>, "Nobits">>, <<<<0, 0, 0, 9>>, "Rel">>,
     <<<<0, 0, 0, 10>>, "Shlib">>, <<<<0, 0, 0, 11>>, "Dynsym">>,
     <<<<0, 0, 0, 14>>, "InitArray">>, <<<<0, 0, 0, 15>>, "FiniArray">>,
     <<<<0, 0, 0, 16>>, "PreinitArray">>, <<<<0, 0, 0, 17>>, "Group">>,
     <<<<0, 0, 0, 18>>, "SymtabShndx">>, <<<<0, 0, 0, 19>>, "Num">>,
     <<<<96, 0, 0, 0>>, "Loos">>,
     <<<<111, 255, 255, 245>>, "GnuAttributes">>,
     <<<<111, 255, 255, 246>>, "GnuHash">>,
     <<<<111, 255, 255, 247>>, "GnuLiblist">>,
     <<<<111, 255, 255, 248>>, "CheckSum">>,
     <<<<111, 255, 255, 253>>, "GnuVerdef">>,
     <<<<111, 255, 255, 254>>, "GnuVerneed">>,
     <<<<111, 255, 255, 255>>, "GnuVersym">>}

SegmentTypeTable ==
    {<<<<0, 0, 0, 0>>, "Null">>, <<<<0, 0, 0, 1>>, "Load">>,
     <<<<0, 0, 0, 2>>, "Dynamic">>, <<<<0, 0, 0, 3>>, "Interp">>,
     <<<<0, 0, 0, 4>>, "Note">>, <<<<0, 0, 0, 5>>, "Shlib">>,
     <<<<0, 0, 0, 6>>, "Phdr">>, <<<<0, 0, 0, 7>>, "Tls">>,
     <<<<0, 0, 0, 8>>, "Num">>,
     <<<<100, 116, 229, 80>>, "GnuEhFrame">>,
     <<<<100, 116, 229, 81>>, "GnuStack">>,
     <<<<100, 116, 229, 82>>, "GnuRelro">>,
     <<<<100, 116, 229, 83>>, "GnuProperty">>}

\* TryFrom of an enumeration: the variant whose discriminant is raw, or msg.
EnumTryFrom(table, raw, msg) ==
    IF \E e \in table : e[1] = raw
    THEN Ok((CHOOSE e \in table : e[1] = raw)[2])
    ELSE Err(msg)

ElfClass_try_from(b) == EnumTryFrom(ElfClassTable, b, "invalid ELF class")

Encoding_try_from(b) == EnumTryFrom(EncodingTable, b, "invaild encoding")

ElfVersion_try_from(b) ==
    EnumTryFrom(ElfVersionTable, b, "not supported ELF version")

OsAbi_try_from(b) == EnumTryFrom(OsAbiTable, b, "not supported OS or ABI")

ObjectFileType_try_from(v) ==
    EnumTryFrom(ObjectFileTypeTable, v, "invalid object file type")

Machine_try_from(v) == EnumTryFrom(MachineTable, v, "invalid machine")

SectionType_try_from(v) ==
    EnumTryFrom(SectionTypeTable, v, "invalid section type")

SegmentType_try_from(v) ==
    EnumTryFrom(SegmentTypeTable, v, "invalid segment type")

-----------------------------------------------------------------------------
(* elf.rs: the bit-flag sets (bitflags!).  all() is the union of the named *)
(* flags and of the unnamed `const _` masks; from_bits fails when a bit    *)
(* outside all() is set and otherwise keeps the raw bits.                  *)

\* SectionFlag64::all(): 0x00000000_FF000FF7.
SectionFlag64_all == <<0, 0, 0, 0, 255, 0, 15, 247>>

\* SegmentFlag::all(): 0xF0000007.
SegmentFlag_all == <<240, 0, 0, 7>>

FlagsFromBits(all, bits) ==
    IF NumAnd(bits, all) = bits THEN Ok(bits) ELSE Err("None")

SectionFlag64_from_bits(bits) == FlagsFromBits(SectionFlag64_all, bits)

SegmentFlag_from_bits(bits) == FlagsFromBits(SegmentFlag_all, bits)

-----------------------------------------------------------------------------
(* elf.rs: ElfIdent::from_bytes and Elf64Header::from_bytes.               *)

\* b"\x7FELF"
ElfMagic == <<127, 69, 76, 70>>

\* mem::offset_of!(ElfIdent, ...) of the #[repr(C)] structure, 0-based.
OffClass == 4
OffData == 5
OffVersion == 6
OffOsAbi == 7
OffAbiVersion == 8
OffPad == 9

\* The value mem::transmute gives the 16 validated bytes: every field is the
\* byte (or bytes) at its offset, an enumeration being the variant with that
\* discriminant.
Transmute(bytes) ==
    [magic |-> Slice(bytes, 0, OffClass),
     class |-> ElfClass_try_from(bytes[OffClass + 1]).val,
     data |-> Encoding_try_from(bytes[OffData + 1]).val,
     version |-> ElfVersion_try_from(bytes[OffVersion + 1]).val,
     osabi |-> OsAbi_try_from(bytes[OffOsAbi + 1]).val,
     abi_version |-> bytes[OffAbiVersion + 1],
     pad |-> Slice(bytes, OffPad, IdentSize)]

\* ElfIdent::from_bytes checking the class before the magic.
ElfIdent_from_bytes_ClassFirst(bytes) ==
    IF ~ElfClass_try_from(bytes[OffClass + 1]).ok
        THEN ElfClass_try_from(bytes[OffClass + 1])
    ELSE IF Slice(bytes, 0, OffClass) # ElfMagic
        THEN Err("magic is not for ELF")
    ELSE IF ~Encoding_try_from(bytes[OffData + 1]).ok
        THEN Encoding_try_from(bytes[OffData + 1])
    ELSE IF ~ElfVersion_try_from(bytes[OffVersion + 1]).ok
        THEN ElfVersion_try_from(bytes[OffVersion + 1])
    ELSE IF ElfVersion_try_from(bytes[OffVersion + 1]).val # "Current"
        THEN Err("invaild ELF version")
    ELSE IF ~OsAbi_try_from(bytes[OffOsAbi + 1]).ok
        THEN OsAbi_try_from(bytes[OffOsAbi + 1])
    ELSE Ok(Transmute(bytes))

\* Lines 163-176: ElfIdent::from_bytes.
ElfIdent_from_bytes(bytes) ==
    IF Slice(bytes, 0, OffClass) # ElfMagic THEN Err("magic is not for ELF")
    ELSE IF ~ElfClass_try_from(bytes[OffClass + 1]).ok
        THEN ElfClass_try_from(bytes[OffClass + 1])
    ELSE IF ~Encoding_try_from(bytes[OffData + 1]).ok
        THEN Encoding_try_from(bytes[OffData + 1])
    ELSE IF ~ElfVersion_try_from(bytes[OffVersion + 1]).ok
        THEN ElfVersion_try_from(bytes[OffVersion + 1])
    ELSE IF ElfVersion_try_from(bytes[OffVersion + 1]).val # "Current"
        THEN Err("invaild ELF version")
    ELSE IF ~OsAbi_try_from(bytes[OffOsAbi + 1]).ok
        THEN OsAbi_try_from(bytes[OffOsAbi + 1])
    ELSE Ok(Transmute(bytes))

\* ElfVersion::Current as u32
VersionCurrent == <<0, 0, 0, 1>>

\* The widths of the fields Elf64Header::from_bytes reads from `left`, in the
\* order it reads them: ty, machine, version, entry, phoff, shoff, flags,
\* ehsize, phentsize, phnum, shentsize, shnum, shstrndx.
HeaderWidths == <<2, 2, 4, 8, 8, 8, 4, 2, 2, 2, 2, 2, 2>>

Elf64Header_from_bytes(id, bytes) ==
    LET ty == ObjectFileType_try_from(Field(bytes, HeaderWidths, 1))
        machine == Machine_try_from(Field(bytes, HeaderWidths, 2))
        version == Field(bytes, HeaderWidths, 3)
    IN  IF ~ty.ok THEN ty
        ELSE IF ~machine.ok THEN machine
        ELSE IF version # VersionCurrent THEN Err("invalid ELF version")
        ELSE Ok([ident |-> id,
                 ty |-> ty.val,
                 machine |-> machine.val,
                 version |-> version,
                 entry |-> Field(bytes, HeaderWidths, 4),
                 phoff |-> Field(bytes, HeaderWidths, 5),
                 shoff |-> Field(bytes, HeaderWidths, 6),
                 flags |-> Field(bytes, HeaderWidths, 7),
                 ehsize |-> Field(bytes, HeaderWidths, 8),
                 phentsize |-> Field(bytes, HeaderWidths, 9),
                 phnum |-> Field(bytes, HeaderWidths, 10),
                 shentsize |-> Field(bytes, HeaderWidths, 11),
                 shnum |-> Field(bytes, HeaderWidths, 12),
                 shstrndx |-> Field(bytes, HeaderWidths, 13)])

-----------------------------------------------------------------------------
(* The byte source: anything that implements std::io::Read.                *)

\* The I/O errors a source may report, with the text of e.to_string().
IoErrors ==
    {[kind |-> "Interrupted", desc |-> "operation interrupted"],
     [kind |-> "Other", desc |-> "input/output error"]}

NoIoErr == [kind |-> "none", desc |-> ""]

\* What Ok(n) a read into a buffer with `space` free bytes may return: 0 at
\* the end of the source and only there, else a short read of MaxChunk bytes
\* or everything that fits.
ReadSizes(space) ==
    LET m == Min(space, Len(stream) - rpos)
    IN  IF m = 0 THEN {0} ELSE {Min(MaxChunk, m), m}

\* A read into a buffer with `space` free bytes returned n bytes, fewer than
\* the source had left for it: a short read.
ShortRead(n, space) == 0 < n /\ n < Min(space, Len(stream) - rpos)

\* The bookkeeping of one call of read on the source that returns Ok.
SourceRead(n) ==
    /\ ioErr = NoIoErr \/ readsAfterErr < MaxReadsAfterErr
    /\ rpos' = rpos + n
    /\ ioErr' = ioErr
    /\ readsAfterErr' = IF ioErr = NoIoErr THEN 0 ELSE readsAfterErr + 1

\* The bookkeeping of one call of read on the source that returns Err(e).
SourceFail(e) ==
    /\ rpos' = rpos
    /\ ioErr' = e
    /\ readsAfterErr' = 0

-----------------------------------------------------------------------------
(* inputs.rs: ObjectFile::from_reader.                                     *)

NoIdent == [decoded |-> FALSE]
NoHeader == [decoded |-> FALSE]
Pending == [ok |-> FALSE, pending |-> TRUE]

\* IdentCheck with the class left out of the acceptance policy.
IdentCheck_NoClass(bytes) ==
    LET id == ElfIdent_from_bytes(bytes)
    IN  IF ~id.ok THEN id
        ELSE IF id.val.data # "LSB2" \/ id.val.osabi # "SysV"
            THEN Err("unsupported format")
        ELSE id

\* IdentCheck with the OS/ABI left out of the acceptance policy.
IdentCheck_NoOsAbi(bytes) ==
    LET id == ElfIdent_from_bytes(bytes)
    IN  IF ~id.ok THEN id
        ELSE IF id.val.class # "Class64" \/ id.val.data # "LSB2"
            THEN Err("unsupported format")
        ELSE id

\* Lines 54-61: decode the identification block, then the acceptance policy.
IdentCheck(bytes) ==
    LET id == ElfIdent_from_bytes(bytes)
    IN  IF ~id.ok THEN id
        ELSE IF id.val.class # "Class64" \/ id.val.data # "LSB2"
                \/ id.val.osabi # "SysV"
            THEN Err("unsupported format")
        ELSE id

\* Lines 45-61: one turn of the first loop, the source returning Err(e).
ReadIdentErr ==
    /\ pc = "ident"
    /\ \E e \in IoErrors :
        /\ SourceFail(e)
        /\ result' = Err(e.desc)
    /\ pc' = "done"
    /\ UNCHANGED <<stream, chunked, shIt2, shOut2, phIt2, phOut2, ident,
                   elfIdent, left, header, data, shIt, shOut, phIt, phOut,
                   panicked>>

\* Lines 45-61: one turn of the first loop, the source returning Ok(n), and
\* what follows the loop once the buffer is full.
ReadIdent ==
    /\ pc = "ident"
    /\ \E n \in ReadSizes(IdentSize - Len(ident)) :
        LET buf == ident \o Slice(stream, rpos, rpos + n)
        IN  /\ SourceRead(n)
            /\ chunked' = (chunked \/ ShortRead(n, IdentSize - Len(ident)))
            /\ ident' = buf
            /\ IF n = 0
               THEN /\ result' = Err("ident contains " \o FormatDec(Len(ident))
                                     \o " bytes")
                    /\ pc' = "done"
                    /\ elfIdent' = elfIdent
               ELSE IF Len(buf) < IdentSize
               THEN UNCHANGED <<result, pc, elfIdent>>
               ELSE IF ~IdentCheck(buf).ok
               THEN /\ result' = IdentCheck(buf)
                    /\ pc' = "done"
                    /\ elfIdent' = elfIdent
               ELSE /\ result' = result
                    /\ pc' = "left"
                    /\ elfIdent' = IdentCheck(buf).val
    /\ UNCHANGED <<stream, shIt2, shOut2, phIt2, phOut2, left, header, data,
                   shIt, shOut, phIt, phOut, panicked>>

\* The second loop reading on after an error of the source.
ReadLeftErr_Retry ==
    /\ pc = "left"
    /\ \E e \in IoErrors : SourceFail(e)
    /\ UNCHANGED <<stream, chunked, shIt2, shOut2, phIt2, phOut2, pc, result,
                   ident, elfIdent, left, header, data, shIt, shOut, phIt,
                   phOut, panicked>>

\* Lines 63-71: one turn of the second loop, the source returning Err(e).
ReadLeftErr ==
    /\ pc = "left"
    /\ \E e \in IoErrors :
        /\ SourceFail(e)
        /\ result' = Err(e.desc)
    /\ pc' = "done"
    /\ UNCHANGED <<stream, chunked, shIt2, shOut2, phIt2, phOut2, ident,
                   elfIdent, left, header, data, shIt, shOut, phIt, phOut,
                   panicked>>

\* The second loop writing each chunk at the start of the buffer, ahead of
\* the bytes read before.
ReadLeft_Prepend ==
    /\ pc = "left"
    /\ \E n \in ReadSizes(HeaderSize - IdentSize - Len(left)) :
        LET buf == Slice(stream, rpos, rpos + n) \o left
            h == Elf64Header_from_bytes(elfIdent, buf)
        IN  /\ SourceRead(n)
            /\ chunked' = (chunked \/ ShortRead(n, HeaderSize - IdentSize
                                                        - Len(left)))
            /\ left' = buf
            /\ IF n = 0
               THEN /\ result' = Err("invalid ELF header")
                    /\ pc' = "done"
                    /\ header' = header
               ELSE IF Len(buf) < HeaderSize - IdentSize
               THEN UNCHANGED <<result, pc, header>>
               ELSE IF ~h.ok
               THEN /\ result' = h
                    /\ pc' = "done"
                    /\ header' = header
               ELSE /\ result' = result
                    /\ pc' = "tail"
                    /\ header' = h.val
    /\ UNCHANGED <<stream, shIt2, shOut2, phIt2, phOut2, ident, elfIdent,
                   data, shIt, shOut, phIt, phOut, panicked>>

\* Lines 63-73: one turn of the second loop, the source returning Ok(n), and
\* the decoding of the header once the buffer is full.
ReadLeft ==
    /\ pc = "left"
    /\ \E n \in ReadSizes(HeaderSize - IdentSize - Len(left)) :
        LET buf == left \o Slice(stream, rpos, rpos + n)
            h == Elf64Header_from_bytes(elfIdent, buf)
        IN  /\ SourceRead(n)
            /\ chunked' = (chunked \/ ShortRead(n, HeaderSize - IdentSize
                                                        - Len(left)))
            /\ left' = buf
            /\ IF n = 0
               THEN /\ result' = Err("invalid ELF header")
                    /\ pc' = "done"
                    /\ header' = header
               ELSE IF Len(buf) < HeaderSize - IdentSize
               THEN UNCHANGED <<result, pc, header>>
               ELSE IF ~h.ok
               THEN /\ result' = h
                    /\ pc' = "done"
                    /\ header' = header
               ELSE /\ result' = result
                    /\ pc' = "tail"
                    /\ header' = h.val
    /\ UNCHANGED <<stream, shIt2, shOut2, phIt2, phOut2, ident, elfIdent,
                   data, shIt, shOut, phIt, phOut, panicked>>

\* Lines 75-77: read_to_end, the source returning Err(e) to one of its reads.
\* Read::read_to_end ignores an error of kind Interrupted and reads on; any
\* other error is what read_to_end returns.
ReadTailErr ==
    /\ pc = "tail"
    /\ \E e \in IoErrors :
        /\ SourceFail(e)
        /\ IF e.kind = "Interrupted"
           THEN UNCHANGED <<result, pc>>
           ELSE /\ result' = Err(e.desc)
                /\ pc' = "done"
    /\ UNCHANGED <<stream, chunked, shIt2, shOut2, phIt2, phOut2, ident,
                   elfIdent, left, header, data, shIt, shOut, phIt, phOut,
                   panicked>>

\* Lines 74-79: read_to_end, the source returning Ok(n) to one of its reads;
\* Ok(0) ends it and from_reader returns the ObjectFile.
ReadTail ==
    /\ pc = "tail"
    /\ \E n \in ReadSizes(Len(stream)) :
        LET buf == data \o Slice(stream, rpos, rpos + n)
        IN  /\ SourceRead(n)
            /\ data' = buf
            /\ IF n = 0
               THEN /\ result' = Ok([header |-> header, data |-> buf])
                    /\ pc' = "done"
               ELSE UNCHANGED <<result, pc>>
    /\ UNCHANGED <<stream, chunked, shIt2, shOut2, phIt2, phOut2, ident,
                   elfIdent, left, header, shIt, shOut, phIt, phOut, panicked>>

\* What from_reader returns for a source that hands over the bytes s without
\* error: the steps of lines 45-79 on the first 16 bytes, the next 48 and
\* the rest.
FromStream(s) ==
    IF Len(s) < IdentSize
    THEN Err("ident contains " \o FormatDec(Len(s)) \o " bytes")
    ELSE LET id == IdentCheck(Slice(s, 0, IdentSize))
         IN  IF ~id.ok THEN id
             ELSE IF Len(s) < HeaderSize THEN Err("invalid ELF header")
             ELSE LET h == Elf64Header_from_bytes(
                               id.val, Slice(s, IdentSize, HeaderSize))
                  IN  IF ~h.ok THEN h
                      ELSE Ok([header |-> h.val,
                               data |-> SliceFrom(s, HeaderSize)])

-----------------------------------------------------------------------------
(* inputs.rs: section_headers(), program_headers() and the two iterators.  *)

\* An iterator: head = data[start..], the declared count len, the cursor pos.
NoIter == [made |-> FALSE]
Iter(start, len) == [made |-> TRUE, start |-> start, len |-> len, pos |-> 0]

None == [some |-> FALSE]
Some(x) == [some |-> TRUE, item |-> x]

\* What a pull does: the Option it returns and the cursor it leaves; a slice
\* index out of range panics instead.
Pull(item, pos) == [panic |-> FALSE, item |-> item, pos |-> pos]
PullPanic == [panic |-> TRUE]

\* TableIter keeping the declared count when the table offset is zero.
TableIter_KeepCount(obj, off, num) ==
    IF ~IsZero(off)
    THEN IF ToNat(off) < HeaderSize
            \/ ToNat(off) - HeaderSize > Len(obj.data)
         THEN PullPanic
         ELSE [panic |-> FALSE,
               it |-> Iter(ToNat(off) - HeaderSize, ToNat(num))]
    ELSE [panic |-> FALSE, it |-> Iter(0, ToNat(num))]

\* Lines 82-96 and 98-112: the iterator over the table at file offset `off`
\* with `num` entries; data[off - 64..] panics when off < 64 (the subtraction
\* overflows, or wraps to an index past the end) or off - 64 > data.len().
TableIter(obj, off, num) ==
    IF ~IsZero(off)
    THEN IF ToNat(off) < HeaderSize
            \/ ToNat(off) - HeaderSize > Len(obj.data)
         THEN PullPanic
         ELSE [panic |-> FALSE,
               it |-> Iter(ToNat(off) - HeaderSize, ToNat(num))]
    ELSE [panic |-> FALSE, it |-> Iter(0, 0)]

section_headers(obj) == TableIter(obj, obj.header.shoff, obj.header.shnum)

program_headers(obj) == TableIter(obj, obj.header.phoff, obj.header.phnum)

\* The widths of the fields of one section header entry, in file order: name,
\* ty, flags, addr, offset, size, link, info, addralign, entsize.
SectionWidths == <<4, 4, 8, 8, 8, 8, 4, 4, 8, 8>>

\* The widths of the fields of one program header entry, in file order: ty,
\* flags, offset, vaddr, paddr, filesz, memsz, align.
SegmentWidths == <<4, 4, 8, 8, 8, 8, 8, 8>>

SectionSizeError == Err("the size of a section header is invalid")

SegmentSizeError == Err("the size of a program header is invalid")

\* Lines 135-161: one section header entry decoded from the cursor `entry`,
\* the iterator being at pos.
SectionDecode(entry, pos) ==
    LET ty == SectionType_try_from(Field(entry, SectionWidths, 2))
        bits == Field(entry, SectionWidths, 3)
        flags == SectionFlag64_from_bits(bits)
    IN  IF ~ty.ok THEN Pull(Some(ty), pos)
        ELSE IF ~flags.ok
            THEN Pull(Some(Err("a section has invalid flags: 0x"
                               \o FormatHex(bits))), pos)
        ELSE Pull(Some(Ok([name |-> Field(entry, SectionWidths, 1),
                           ty |-> ty.val,
                           flags |-> flags.val,
                           addr |-> Field(entry, SectionWidths, 4),
                           offset |-> Field(entry, SectionWidths, 5),
                           size |-> Field(entry, SectionWidths, 6),
                           link |-> Field(entry, SectionWidths, 7),
                           info |-> Field(entry, SectionWidths, 8),
                           addralign |-> Field(entry, SectionWidths, 9),
                           entsize |-> Field(entry, SectionWidths, 10)])),
                  pos + SectionHeaderSize)

\* SectionHeaderIter::next taking a window shorter than one entry for the
\* end of the table.
SectionHeaderIter_next_ShortIsEnd(obj, it) ==
    LET size == SectionHeaderSize
        head == SliceFrom(obj.data, it.start)
    IN  IF it.pos >= size * it.len THEN Pull(None, it.pos)
        ELSE IF it.pos > Len(head) THEN PullPanic
        ELSE IF Len(SliceFrom(head, it.pos)) < size THEN Pull(None, it.pos)
        ELSE SectionDecode(Slice(head, it.pos, it.pos + size), it.pos)

\* Lines 124-162: SectionHeaderIter::next.
SectionHeaderIter_next(obj, it) ==
    LET size == SectionHeaderSize
        head == SliceFrom(obj.data, it.start)
    IN  IF it.pos >= size * it.len THEN Pull(None, it.pos)
        ELSE IF it.pos > Len(head) THEN PullPanic
        ELSE IF Len(SliceFrom(head, it.pos)) < size
            THEN Pull(Some(SectionSizeError), it.pos)
        ELSE SectionDecode(Slice(head, it.pos, it.pos + size), it.pos)

\* SegmentDecode stepping over an entry it rejects.
SegmentDecode_SkipBad(entry, pos) ==
    LET ty == SegmentType_try_from(Field(entry, SegmentWidths, 1))
        bits == Field(entry, SegmentWidths, 2)
        flags == SegmentFlag_from_bits(bits)
    IN  IF ~ty.ok THEN Pull(Some(ty), pos + ProgramHeaderSize)
        ELSE IF ~flags.ok
            THEN Pull(Some(Err("a section has invalid flags: "
                               \o FormatHex(bits))),
                      pos + ProgramHeaderSize)
        ELSE Pull(Some(Ok([ty |-> ty.val,
                           flags |-> flags.val,
                           offset |-> Field(entry, SegmentWidths, 3),
                           vaddr |-> Field(entry, SegmentWidths, 4),
                           paddr |-> Field(entry, SegmentWidths, 5),
                           filesz |-> Field(entry, SegmentWidths, 6),
                           memsz |-> Field(entry, SegmentWidths, 7),
                           align |-> Field(entry, SegmentWidths, 8)])),
                  pos + ProgramHeaderSize)

\* Lines 184-208: one program header entry decoded from the cursor `entry`,
\* the iterator being at pos.
SegmentDecode(entry, pos) ==
    LET ty == SegmentType_try_from(Field(entry, SegmentWidths, 1))
        bits == Field(entry, SegmentWidths, 2)
        flags == SegmentFlag_from_bits(bits)
    IN  IF ~ty.ok THEN Pull(Some(ty), pos)
        ELSE IF ~flags.ok
            THEN Pull(Some(Err("a section has invalid flags: "
                               \o FormatHex(bits))), pos)
        ELSE Pull(Some(Ok([ty |-> ty.val,
                           flags |-> flags.val,
                           offset |-> Field(entry, SegmentWidths, 3),
                           vaddr |-> Field(entry, SegmentWidths, 4),
                           paddr |-> Field(entry, SegmentWidths, 5),
                           filesz |-> Field(entry, SegmentWidths, 6),
                           memsz |-> Field(entry, SegmentWidths, 7),
                           align |-> Field(entry, SegmentWidths, 8)])),
                  pos + ProgramHeaderSize)

\* Lines 174-209: ProgramHeaderIter::next.
ProgramHeaderIter_next(obj, it) ==
    LET size == ProgramHeaderSize
        head == SliceFrom(obj.data, it.start)
    IN  IF it.pos >= size * it.len THEN Pull(None, it.pos)
        ELSE IF it.pos > Len(head) THEN PullPanic
        ELSE IF Len(SliceFrom(head, it.pos)) < size
            THEN Pull(Some(SegmentSizeError), it.pos)
        ELSE SegmentDecode(SliceFrom(head, it.pos), it.pos)

\* The caller holds an ObjectFile: from_reader returned Ok and nothing has
\* panicked since.
HasObject == pc = "done" /\ result.ok /\ ~panicked

\* The caller calls section_headers().
SectionHeaders ==
    /\ HasObject
    /\ ~shIt.made
    /\ LET r == section_headers(result.val)
       IN  IF r.panic
           THEN /\ panicked' = TRUE
                /\ shIt' = shIt
           ELSE /\ panicked' = panicked
                /\ shIt' = r.it
    /\ UNCHANGED <<stream, chunked, shIt2, shOut2, phIt2, phOut2, rpos, pc,
                   ident, elfIdent, left, header, data, result, ioErr,
                   readsAfterErr, shOut, phIt, phOut>>

\* The caller pulls the next item from the section header iterator.
SectionNext ==
    /\ HasObject
    /\ shIt.made
    /\ Len(shOut) + Len(phOut) < MaxPulls
    /\ LET r == SectionHeaderIter_next(result.val, shIt)
       IN  IF r.panic
           THEN /\ panicked' = TRUE
                /\ UNCHANGED <<shIt, shOut>>
           ELSE /\ panicked' = panicked
                /\ shIt' = [shIt EXCEPT !.pos = r.pos]
                /\ shOut' = Append(shOut, r.item)
    /\ UNCHANGED <<stream, chunked, shIt2, shOut2, phIt2, phOut2, rpos, pc,
                   ident, elfIdent, left, header, data, result, ioErr,
                   readsAfterErr, phIt, phOut>>

\* The caller calls program_headers().
ProgramHeaders ==
    /\ HasObject
    /\ ~phIt.made
    /\ LET r == program_headers(result.val)
       IN  IF r.panic
           THEN /\ panicked' = TRUE
                /\ phIt' = phIt
           ELSE /\ panicked' = panicked
                /\ phIt' = r.it
    /\ UNCHANGED <<stream, chunked, shIt2, shOut2, phIt2, phOut2, rpos, pc,
                   ident, elfIdent, left, header, data, result, ioErr,
                   readsAfterErr, shIt, shOut, phOut>>

\* The caller pulls the next item from the program header iterator.
ProgramNext ==
    /\ HasObject
    /\ phIt.made
    /\ Len(shOut) + Len(phOut) < MaxPulls
    /\ LET r == ProgramHeaderIter_next(result.val, phIt)
       IN  IF r.panic
           THEN /\ panicked' = TRUE
                /\ UNCHANGED <<phIt, phOut>>
           ELSE /\ panicked' = panicked
                /\ phIt' = [phIt EXCEPT !.pos = r.pos]
                /\ phOut' = Append(phOut, r.item)
    /\ UNCHANGED <<stream, chunked, shIt2, shOut2, phIt2, phOut2, rpos, pc,
                   ident, elfIdent, left, header, data, result, ioErr,
                   readsAfterErr, shIt, shOut>>

-----------------------------------------------------------------------------
(* A second iterator of each kind, alive together with the first.  It       *)
(* borrows either the same ObjectFile or one constructed independently from *)
(* the same byte stream.                                                    *)

\* The iterator `it`, with the ObjectFile it borrows: "same" for the one
\* from_reader returned, "other" for a second construction.
Iter2(it, of) ==
    [made |-> TRUE, start |-> it.start, len |-> it.len, pos |-> it.pos,
     of |-> of]

\* The ObjectFile a second iterator borrows.
ObjectOf(it) ==
    IF it.of = "same" THEN result.val ELSE FromStream(stream).val

\* The caller calls section_headers() a second time.
SectionHeaders2 ==
    /\ HasObject
    /\ ~shIt2.made
    /\ \E of \in {"same", "other"} :
        LET obj == IF of = "same" THEN result.val ELSE FromStream(stream).val
            r == section_headers(obj)
        IN  IF r.panic
            THEN /\ panicked' = TRUE
                 /\ shIt2' = shIt2
            ELSE /\ panicked' = panicked
                 /\ shIt2' = Iter2(r.it, of)
    /\ UNCHANGED <<stream, chunked, rpos, pc, ident, elfIdent, left, header,
                   data, result, ioErr, readsAfterErr, shIt, shOut, phIt,
                   phOut, shOut2, phIt2, phOut2>>

\* SectionNext2 moving the cursor of the first iterator: one cursor shared
\* by the two iterators.
SectionNext2_SharedCursor ==
    /\ HasObject
    /\ shIt2.made
    /\ shIt.made
    /\ Len(shOut) + Len(phOut) + Len(shOut2) + Len(phOut2) < MaxPulls
    /\ LET r == SectionHeaderIter_next(ObjectOf(shIt2), shIt)
       IN  IF r.panic
           THEN /\ panicked' = TRUE
                /\ UNCHANGED <<shIt, shOut2>>
           ELSE /\ panicked' = panicked
                /\ shIt' = [shIt EXCEPT !.pos = r.pos]
                /\ shOut2' = Append(shOut2, r.item)
    /\ UNCHANGED <<stream, chunked, rpos, pc, ident, elfIdent, left, header,
                   data, result, ioErr, readsAfterErr, shIt2, shOut, phIt,
                   phOut, phIt2, phOut2>>

\* The caller pulls the next item from the second section header iterator.
SectionNext2 ==
    /\ HasObject
    /\ shIt2.made
    /\ Len(shOut) + Len(phOut) + Len(shOut2) + Len(phOut2) < MaxPulls
    /\ LET r == SectionHeaderIter_next(ObjectOf(shIt2), shIt2)
       IN  IF r.panic
           THEN /\ panicked' = TRUE
                /\ UNCHANGED <<shIt2, shOut2>>
           ELSE /\ panicked' = panicked
                /\ shIt2' = [shIt2 EXCEPT !.pos = r.pos]
                /\ shOut2' = Append(shOut2, r.item)
    /\ UNCHANGED <<stream, chunked, rpos, pc, ident, elfIdent, left, header,
                   data, result, ioErr, readsAfterErr, shIt, shOut, phIt,
                   phOut, phIt2, phOut2>>

\* The caller calls program_headers() a second time.
ProgramHeaders2 ==
    /\ HasObject
    /\ ~phIt2.made
    /\ \E of \in {"same", "other"} :
        LET obj == IF of = "same" THEN result.val ELSE FromStream(stream).val
            r == program_headers(obj)
        IN  IF r.panic
            THEN /\ panicked' = TRUE
                 /\ phIt2' = phIt2
            ELSE /\ panicked' = panicked
                 /\ phIt2' = Iter2(r.it, of)
    /\ UNCHANGED <<stream, chunked, rpos, pc, ident, elfIdent, left, header,
                   data, result, ioErr, readsAfterErr, shIt, shOut, phIt,
                   phOut, shIt2, shOut2, phOut2>>

\* The caller pulls the next item from the second program header iterator.
ProgramNext2 ==
    /\ HasObject
    /\ phIt2.made
    /\ Len(shOut) + Len(phOut) + Len(shOut2) + Len(phOut2) < MaxPulls
    /\ LET r == ProgramHeaderIter_next(ObjectOf(phIt2), phIt2)
       IN  IF r.panic
           THEN /\ panicked' = TRUE
                /\ UNCHANGED <<phIt2, phOut2>>
           ELSE /\ panicked' = panicked
                /\ phIt2' = [phIt2 EXCEPT !.pos = r.pos]
                /\ phOut2' = Append(phOut2, r.item)
    /\ UNCHANGED <<stream, chunked, rpos, pc, ident, elfIdent, left, header,
                   data, result, ioErr, readsAfterErr, shIt, shOut, phIt,
                   phOut, shIt2, shOut2>>

-----------------------------------------------------------------------------
(* The input streams.  Each family varies one part of the file around a    *)
(* well-formed ELF64 little-endian SysV file.                              *)

\* The w-digit numeral of a small natural number.
RECURSIVE Num(_, _)
Num(n, w) == IF w = 0 THEN <<>> ELSE Num(n \div 256, w - 1) \o <<n % 256>>

\* The little-endian bytes of a numeral, as a writer of the format lays it out.
Le(num) == Reverse(num)

RECURSIVE Flatten(_)
Flatten(ss) == IF ss = <<>> THEN <<>> ELSE Head(ss) \o Flatten(Tail(ss))

\* All sequences of at most n elements of S.
RECURSIVE SeqsUpTo(_, _)
SeqsUpTo(S, n) ==
    IF n = 0 THEN {<<>>}
    ELSE LET shorter == SeqsUpTo(S, n - 1)
         IN  shorter \cup {Append(q, x) : q \in shorter, x \in S}

MkIdent(magic, class, enc, version, osabi, abi) ==
    magic \o <<class, enc, version, osabi, abi>> \o <<0, 0, 0, 0, 0, 0, 0>>

GoodIdent == MkIdent(ElfMagic, 2, 1, 1, 0, 0)

\* The 48 bytes after the identification block, from the values of the fields.
MkLeft(f) ==
    Le(f.ty) \o Le(f.machine) \o Le(f.version) \o Le(f.entry) \o Le(f.phoff)
    \o Le(f.shoff) \o Le(f.flags) \o Le(f.ehsize) \o Le(f.phentsize)
    \o Le(f.phnum) \o Le(f.shentsize) \o Le(f.shnum) \o Le(f.shstrndx)

\* A shared object for x86-64 with no tables at all, yet non-zero counts.
GoodFields ==
    [ty |-> <<0, 3>>, machine |-> <<0, 62>>, version |-> VersionCurrent,
     entry |-> <<0, 0, 0, 0, 0, 64, 16, 32>>,
     phoff |-> Zeros(8), shoff |-> Zeros(8), flags |-> <<0, 0, 0, 5>>,
     ehsize |-> Num(HeaderSize, 2), phentsize |-> Num(ProgramHeaderSize, 2),
     phnum |-> <<0, 1>>, shentsize |-> Num(SectionHeaderSize, 2),
     shnum |-> <<0, 2>>, shstrndx |-> <<0, 1>>]

\* The same with every byte of the offset, size and count fields different.
BusyFields ==
    [GoodFields EXCEPT
       !.entry = <<11, 12, 13, 14, 15, 16, 17, 18>>,
       !.phoff = <<21, 22, 23, 24, 25, 26, 27, 28>>,
       !.shoff = <<31, 32, 33, 34, 35, 36, 37, 38>>,
       !.flags = <<241, 242, 243, 244>>,
       !.ehsize = <<51, 52>>, !.phentsize = <<53, 54>>,
       !.phnum = <<55, 56>>, !.shentsize = <<57, 58>>,
       !.shnum = <<59, 60>>, !.shstrndx = <<61, 62>>]

SomeTail == <<170, 187, 204>>

\* Family: the identification block varies.
IdentStreams ==
    {MkIdent(m, c, d, v, o, a) \o MkLeft(GoodFields) \o SomeTail :
        m \in {ElfMagic, <<127, 69, 76, 71>>, <<0, 69, 76, 70>>},
        c \in {0, 1, 2, 3, 255},
        d \in {0, 1, 2, 3},
        v \in {0, 1, 2},
        o \in {0, 1, 2, 255},
        a \in {0, 9}}

\* Family: the rest of the file header varies.
HeaderStreams ==
    {GoodIdent \o MkLeft([f EXCEPT !.ty = t, !.machine = m, !.version = v])
     \o tl :
        f \in {GoodFields, BusyFields},
        t \in {<<0, 1>>, <<0, 5>>, <<1, 0>>},
        m \in {<<0, 62>>, <<0, 6>>},
        v \in {VersionCurrent, Zeros(4), <<1, 0, 0, 0>>},
        tl \in {<<>>, SomeTail}}

\* Family: the source ends early.
GoodFile == GoodIdent \o MkLeft(BusyFields) \o SomeTail
ShortStreams == {SubSeq(GoodFile, 1, n) : n \in 0..Len(GoodFile)}

\* One section header entry with the given type and flags.
MkSection(ty, flags) ==
    Le(<<1, 2, 3, 4>>) \o Le(ty) \o Le(flags)
    \o Le(<<11, 12, 13, 14, 15, 16, 17, 18>>)
    \o Le(<<21, 22, 23, 24, 25, 26, 27, 28>>)
    \o Le(<<31, 32, 33, 34, 35, 36, 37, 38>>)
    \o Le(<<41, 42, 43, 44>>) \o Le(<<45, 46, 47, 48>>)
    \o Le(<<51, 52, 53, 54, 55, 56, 57, 58>>)
    \o Le(<<61, 62, 63, 64, 65, 66, 67, 68>>)

\* One program header entry with the given type and flags.
MkSegment(ty, flags) ==
    Le(ty) \o Le(flags)
    \o Le(<<11, 12, 13, 14, 15, 16, 17, 18>>)
    \o Le(<<21, 22, 23, 24, 25, 26, 27, 28>>)
    \o Le(<<31, 32, 33, 34, 35, 36, 37, 38>>)
    \o Le(<<41, 42, 43, 44, 45, 46, 47, 48>>)
    \o Le(<<51, 52, 53, 54, 55, 56, 57, 58>>)
    \o Le(<<61, 62, 63, 64, 65, 66, 67, 68>>)

\* Entries of a section table: two well-formed ones, one of unknown type, one
\* with a flag bit that is neither named nor reserved.
SectionEntries ==
    {MkSection(<<0, 0, 0, 1>>, <<0, 0, 0, 0, 0, 0, 0, 1>>),
     MkSection(<<111, 255, 255, 246>>, <<0, 0, 0, 0, 241, 0, 0, 6>>),
     MkSection(<<0, 0, 0, 12>>, <<0, 0, 0, 0, 0, 0, 0, 2>>),
     MkSection(<<0, 0, 0, 1>>, <<0, 0, 0, 0, 0, 0, 0, 9>>)}

SegmentEntries ==
    {MkSegment(<<0, 0, 0, 1>>, <<0, 0, 0, 5>>),
     MkSegment(<<100, 116, 229, 81>>, <<240, 0, 0, 6>>),
     MkSegment(<<0, 0, 0, 9>>, <<0, 0, 0, 4>>),
     MkSegment(<<0, 0, 0, 1>>, <<0, 0, 0, 12>>)}

A10 == <<1, 2, 3, 4, 5, 6, 7, 8, 9, 10>>

\* A file whose section header table is declared at offset off with n
\* entries, and whose trailing buffer is tl.
SectionFile(off, n, tl) ==
    GoodIdent
    \o MkLeft([GoodFields EXCEPT !.shoff = Num(off, 8), !.shnum = Num(n, 2)])
    \o tl

\* The same for the program header table.
SegmentFile(off, n, tl) ==
    GoodIdent
    \o MkLeft([GoodFields EXCEPT !.phoff = Num(off, 8), !.phnum = Num(n, 2)])
    \o tl

\* Family: the section header table varies: its entries, a truncated last
\* entry and the declared count.  The table starts after SomeTail.
SectionStreams ==
    {SectionFile(HeaderSize + Len(SomeTail), n,
                 SomeTail \o Flatten(es) \o cut) :
        es \in SeqsUpTo(SectionEntries, MaxEntries),
        cut \in {<<>>, A10},
        n \in 0..(MaxEntries + 1)}

\* Family: the program header table varies likewise.
SegmentStreams ==
    {SegmentFile(HeaderSize + Len(SomeTail), n,
                 SomeTail \o Flatten(es) \o cut) :
        es \in SeqsUpTo(SegmentEntries, MaxEntries),
        cut \in {<<>>, A10},
        n \in 0..(MaxEntries + 1)}

\* The table offsets tried with a trailing buffer of len bytes: absent,
\* inside the file header, right after the file header, at the end of the
\* file, past the end of the file.
Offsets(len) ==
    {0, HeaderSize - 1, HeaderSize, HeaderSize + len, HeaderSize + len + 1}

\* Family: the declared offset of a table varies.
OffsetStreams ==
    UNION {
        {SectionFile(off, n, tl) : off \in Offsets(Len(tl)), n \in 0..2}
        \cup
        {SegmentFile(off, n, tl) : off \in Offsets(Len(tl)), n \in 0..2} :
        tl \in {<<>>, A10, MkSection(<<0, 0, 0, 1>>, Num(1, 8)),
                MkSegment(<<0, 0, 0, 1>>, Num(1, 4)) \o A10}}

\* Raw flag values of a section: named bits, reserved bits, and bits that are
\* neither (bit 3, bits 12..23, bits 32..63).
SectionFlagValues ==
    {<<0, 0, 0, 0, 0, 0, 0, 0>>, <<0, 0, 0, 0, 0, 0, 0, 1>>,
     <<0, 0, 0, 0, 0, 0, 15, 247>>, <<0, 0, 0, 0, 1, 0, 0, 0>>,
     <<0, 0, 0, 0, 240, 0, 0, 0>>, <<0, 0, 0, 0, 255, 0, 15, 247>>,
     <<0, 0, 0, 0, 0, 0, 0, 8>>, <<0, 0, 0, 0, 0, 0, 16, 1>>,
     <<0, 0, 0, 0, 0, 128, 0, 0>>, <<0, 0, 0, 1, 0, 0, 0, 1>>,
     <<128, 0, 0, 0, 0, 0, 0, 0>>}

\* Raw flag values of a segment.
SegmentFlagValues ==
    {<<0, 0, 0, 0>>, <<0, 0, 0, 1>>, <<0, 0, 0, 7>>, <<240, 0, 0, 0>>,
     <<16, 0, 0, 3>>, <<0, 0, 0, 8>>, <<8, 0, 0, 0>>, <<0, 1, 0, 4>>}

\* Family: one table of one well-typed entry whose flags vary.
FlagStreams ==
    {GoodIdent
     \o MkLeft([GoodFields EXCEPT !.shoff = Num(HeaderSize, 8),
                                  !.shnum = <<0, 1>>])
     \o MkSection(<<0, 0, 0, 1>>, fl) : fl \in SectionFlagValues}
    \cup
    {GoodIdent
     \o MkLeft([GoodFields EXCEPT !.phoff = Num(HeaderSize, 8),
                                  !.phnum = <<0, 1>>])
     \o MkSegment(<<0, 0, 0, 1>>, fl) : fl \in SegmentFlagValues}

\* Family: both tables, the program header table first.
BothStreams ==
    {GoodIdent
     \o MkLeft([GoodFields EXCEPT
                  !.phoff = Num(HeaderSize, 8),
                  !.phnum = <<0, 1>>,
                  !.shoff = Num(HeaderSize + ProgramHeaderSize, 8),
                  !.shnum = <<0, 1>>])
     \o sg \o sc : sg \in SegmentEntries, sc \in SectionEntries}

Streams ==
    IdentStreams \cup HeaderStreams \cup ShortStreams \cup SectionStreams
    \cup SegmentStreams \cup OffsetStreams \cup FlagStreams \cup BothStreams

-----------------------------------------------------------------------------
(* The specification.                                                      *)

Init ==
    /\ stream \in Streams
    /\ rpos = 0
    /\ pc = "ident"
    /\ ident = <<>>
    /\ elfIdent = NoIdent
    /\ left = <<>>
    /\ header = NoHeader
    /\ data = <<>>
    /\ result = Pending
    /\ ioErr = NoIoErr
    /\ readsAfterErr = 0
    /\ shIt = NoIter
    /\ shOut = <<>>
    /\ phIt = NoIter
    /\ phOut = <<>>
    /\ panicked = FALSE
    /\ chunked = FALSE
    /\ shIt2 = NoIter
    /\ shOut2 = <<>>
    /\ phIt2 = NoIter
    /\ phOut2 = <<>>

Next ==
    \/ ReadIdent
    \/ ReadIdentErr
    \/ ReadLeft
    \/ ReadLeftErr
    \/ ReadTail
    \/ ReadTailErr
    \/ SectionHeaders
    \/ SectionNext
    \/ ProgramHeaders
    \/ ProgramNext

Spec == Init /\ [][Next]_vars

\* The files read through two iterators of a kind: a table of two entries
\* (both well-formed, or one of them with invalid flags or of unknown type),
\* and both tables of one well-formed entry.
TwoStreams ==
    {SectionFile(HeaderSize + Len(SomeTail), 2, SomeTail \o Flatten(es)) :
        es \in {<<MkSection(<<0, 0, 0, 1>>, <<0, 0, 0, 0, 0, 0, 0, 1>>),
                  MkSection(<<111, 255, 255, 246>>,
                            <<0, 0, 0, 0, 241, 0, 0, 6>>)>>,
                <<MkSection(<<0, 0, 0, 1>>, <<0, 0, 0, 0, 0, 0, 0, 9>>),
                  MkSection(<<0, 0, 0, 1>>, <<0, 0, 0, 0, 0, 0, 0, 1>>)>>}}
    \cup
    {SegmentFile(HeaderSize + Len(SomeTail), 2, SomeTail \o Flatten(es)) :
        es \in {<<MkSegment(<<0, 0, 0, 1>>, <<0, 0, 0, 5>>),
                  MkSegment(<<100, 116, 229, 81>>, <<240, 0, 0, 6>>)>>,
                <<MkSegment(<<0, 0, 0, 1>>, <<0, 0, 0, 5>>),
                  MkSegment(<<0, 0, 0, 9>>, <<0, 0, 0, 4>>)>>}}
    \cup
    {s \in BothStreams :
        SubSeq(s, HeaderSize + 1, Len(s))
        = MkSegment(<<0, 0, 0, 1>>, <<0, 0, 0, 5>>)
          \o MkSection(<<0, 0, 0, 1>>, <<0, 0, 0, 0, 0, 0, 0, 1>>)}

InitTwo == Init /\ stream \in TwoStreams

NextTwo ==
    \/ Next
    \/ SectionHeaders2
    \/ SectionNext2
    \/ ProgramHeaders2
    \/ ProgramNext2

\* The reader with two iterators of each kind alive at once.
SpecTwo == InitTwo /\ [][NextTwo]_vars

-----------------------------------------------------------------------------
(* What the claims speak of, stated on the bytes of the source.            *)

\* from_reader has filled the 16-byte buffer: the source delivered the
\* identification bytes.
IdentRead == Len(ident) = IdentSize

\* The byte at file offset off (0-based).
ByteAt(off) == stream[off + 1]

\* The value of the w little-endian bytes at file offset off, as a numeral.
LeAt(off, w) == [i \in 1..w |-> stream[off + w + 1 - i]]

MagicOk == SubSeq(stream, 1, 4) = <<127, 69, 76, 70>>
ClassKnown == ByteAt(4) \in {0, 1, 2}
EncodingKnown == ByteAt(5) \in {0, 1, 2}
OsAbiKnown == ByteAt(7) \in {0, 1, 255}

\* from_reader returned the error msg.
Failed(msg) == pc = "done" /\ ~result.ok /\ result.err = msg

-----------------------------------------------------------------------------
(* C1 *)

\* C1 as stated: whenever the identification bytes carry a class byte other
\* than 2, the other identification fields being well-formed, from_reader
\* fails with "unsupported format".
C1_AnyClassUnsupported ==
    (IdentRead /\ ByteAt(4) # 2 /\ MagicOk /\ EncodingKnown /\ ByteAt(6) = 1
        /\ OsAbiKnown)
    => Failed("unsupported format")

\* C1, amended: with a valid magic, a class byte of 0 or 1 (the other
\* identification fields being well-formed) makes from_reader fail with
\* "unsupported format", and a class byte of 3..255 makes it fail with
\* "invalid ELF class", whatever the other fields are.
C1_ClassRejected ==
    /\ (IdentRead /\ MagicOk /\ ByteAt(4) \in {0, 1} /\ EncodingKnown
            /\ ByteAt(6) = 1 /\ OsAbiKnown)
       => Failed("unsupported format")
    /\ (IdentRead /\ MagicOk /\ ByteAt(4) \notin {0, 1, 2})
       => Failed("invalid ELF class")

\* A 32-bit file, otherwise well-formed, has been rejected as unsupported.
C1_Witness ==
    /\ IdentRead /\ MagicOk /\ ByteAt(4) = 1 /\ ByteAt(5) = 1
    /\ ByteAt(6) = 1 /\ ByteAt(7) = 0
    /\ Failed("unsupported format")

-----------------------------------------------------------------------------
(* C2, C3 *)

\* The items among the first n results of a sequence of pulls.
RECURSIVE Items(_, _)
Items(out, n) ==
    IF n = 0 THEN 0
    ELSE Items(out, n - 1) + (IF out[n].some THEN 1 ELSE 0)

\* The Ok items among the first n results of a sequence of pulls.
RECURSIVE OkItems(_, _)
OkItems(out, n) ==
    IF n = 0 THEN 0
    ELSE OkItems(out, n - 1)
         + (IF out[n].some /\ out[n].item.ok THEN 1 ELSE 0)

\* In the results `out` of the pulls on one iterator, nothing but None
\* follows the size error.
Terminal(out, sizeError) ==
    \A i, j \in 1..Len(out) :
        (i < j /\ out[i] = Some(sizeError)) => out[j] = None

\* C2 as stated: once a pull on a section or program header iterator has
\* returned the size error, every later pull on that iterator returns None.
C2_SizeErrorIsTerminal ==
    /\ Terminal(shOut, SectionSizeError)
    /\ Terminal(phOut, SegmentSizeError)

\* C3 as stated: the pulls on one iterator produce at most shnum (phnum)
\* items, Ok or Err.
C3_AtMostDeclaredCount ==
    /\ shIt.made => Items(shOut, Len(shOut)) <= ToNat(header.shnum)
    /\ phIt.made => Items(phOut, Len(phOut)) <= ToNat(header.phnum)

-----------------------------------------------------------------------------
(* C4 *)

\* C4: when the decoded header has shoff = 0, every pull on the iterator of
\* section_headers() returns None, whatever shnum and the trailing buffer
\* are; likewise for phoff = 0 and program_headers().
C4_ZeroOffsetIsEmpty ==
    /\ (shIt.made /\ IsZero(LeAt(40, 8)))
       => \A i \in 1..Len(shOut) : shOut[i] = None
    /\ (phIt.made /\ IsZero(LeAt(32, 8)))
       => \A i \in 1..Len(phOut) : phOut[i] = None

\* Both offsets are zero, both counts are not, the trailing buffer is not
\* empty, and both iterators have been pulled.
C4_Witness ==
    /\ shIt.made /\ phIt.made
    /\ IsZero(LeAt(40, 8)) /\ IsZero(LeAt(32, 8))
    /\ ~IsZero(LeAt(60, 2)) /\ ~IsZero(LeAt(56, 2))
    /\ data # <<>>
    /\ Len(shOut) >= 2 /\ Len(phOut) >= 2

-----------------------------------------------------------------------------
(* C5 *)

\* The caller pulls from the section header iterator in this step.
SectionPull == shIt.made /\ shOut' # shOut

\* C5: a pull on the section header iterator, made where the entry is
\* declared (pos < 64 * len) and fewer than 64 bytes of the window remain at
\* pos, returns the error "the size of a section header is invalid" and does
\* not panic; the entries before pos have all been yielded as Ok.
C5_TruncatedEntry ==
    [][(SectionPull
        /\ shIt.pos < 64 * shIt.len
        /\ Len(data) - shIt.start - shIt.pos < 64)
       => /\ shOut' = Append(shOut, Some(SectionSizeError))
          /\ ~panicked'
          /\ OkItems(shOut, Len(shOut)) * 64 = shIt.pos]_vars

\* Two entries were yielded as Ok and the pull for the third, truncated to
\* ten bytes, returned the size error.
C5_Witness ==
    /\ shIt.made /\ Len(shOut) = 3
    /\ shOut[1].some /\ shOut[1].item.ok
    /\ shOut[2].some /\ shOut[2].item.ok
    /\ shOut[3] = Some(SectionSizeError)
    /\ Len(data) - shIt.start - shIt.pos = 10

-----------------------------------------------------------------------------
(* C6 *)

\* C6: every ObjectFile from_reader returns has the ELF magic, class 64-bit,
\* encoding little-endian, identification version current, OS/ABI SysV and
\* header version 1; and an identification block that decodes (valid magic,
\* known class, encoding and OS/ABI, version current) with any other (class,
\* encoding, OS/ABI) makes from_reader fail with "unsupported format".
C6_OnlySupportedFormat ==
    /\ result.ok =>
        /\ result.val.header.ident.magic = <<127, 69, 76, 70>>
        /\ result.val.header.ident.class = "Class64"
        /\ result.val.header.ident.data = "LSB2"
        /\ result.val.header.ident.version = "Current"
        /\ result.val.header.ident.osabi = "SysV"
        /\ result.val.header.version = <<0, 0, 0, 1>>
    /\ (IdentRead /\ MagicOk /\ ClassKnown /\ EncodingKnown /\ ByteAt(6) = 1
            /\ OsAbiKnown /\ <<ByteAt(4), ByteAt(5), ByteAt(7)>> # <<2, 1, 0>>)
       => Failed("unsupported format")

\* An ObjectFile has been returned, and it came from a file whose ABI version
\* byte is not zero.
C6_Witness == pc = "done" /\ result.ok /\ ByteAt(8) = 9 /\ data # <<>>

-----------------------------------------------------------------------------
(* C7 *)

\* The error of the first check of the identification block that fails, in
\* the order magic, class, encoding, version, OS/ABI; "" if none fails.
FirstIdentError ==
    IF ~MagicOk THEN "magic is not for ELF"
    ELSE IF ~ClassKnown THEN "invalid ELF class"
    ELSE IF ~EncodingKnown THEN "invaild encoding"
    ELSE IF ByteAt(6) \notin {0, 1} THEN "not supported ELF version"
    ELSE IF ByteAt(6) = 0 THEN "invaild ELF version"
    ELSE IF ~OsAbiKnown THEN "not supported OS or ABI"
    ELSE ""

\* C7: the identification block is validated in the order magic, class,
\* encoding, version, OS/ABI and from_reader returns the error of the first
\* check that fails; so a wrong magic always gives "magic is not for ELF",
\* and the version byte 0 (known, not current) gives another error than a
\* version byte of 2..255.
C7_FirstFailingCheck ==
    /\ (IdentRead /\ FirstIdentError # "") => Failed(FirstIdentError)
    /\ (IdentRead /\ ~MagicOk) => Failed("magic is not for ELF")
    /\ (IdentRead /\ pc = "done" /\ MagicOk /\ ClassKnown /\ EncodingKnown
            /\ ByteAt(6) # 1)
       => (result.err = "invaild ELF version") = (ByteAt(6) = 0)

\* A wrong magic was reported although the class, the encoding, the version
\* and the OS/ABI are all unknown values too.
C7_Witness ==
    /\ IdentRead /\ ~MagicOk /\ ~ClassKnown /\ ~EncodingKnown
    /\ ByteAt(6) = 2 /\ ~OsAbiKnown
    /\ Failed("magic is not for ELF")

-----------------------------------------------------------------------------
(* C8 *)

\* The source holds at least 64 bytes that are a valid little-endian, 64-bit,
\* SysV header: known object type and machine, both versions current.
ValidHeaderBytes ==
    /\ Len(stream) >= 64
    /\ MagicOk /\ ByteAt(4) = 2 /\ ByteAt(5) = 1 /\ ByteAt(6) = 1
    /\ ByteAt(7) = 0
    /\ ByteAt(17) = 0 /\ ByteAt(16) \in 0..4
    /\ ByteAt(19) = 0 /\ ByteAt(18) \in {0, 1, 2, 3, 4, 5, 7, 8, 62}
    /\ LeAt(20, 4) = <<0, 0, 0, 1>>

\* C8: for a source that holds a valid header and reports no I/O error,
\* from_reader succeeds, the offset, size and count fields are the
\* little-endian values of the bytes at offsets 24, 32, 40, 48, 52, 54, 56,
\* 58, 60 and 62, and data is the bytes from offset 64 to the end.
C8_ValidHeaderDecoded ==
    (pc = "done" /\ ValidHeaderBytes /\ ioErr = NoIoErr) =>
        /\ result.ok
        /\ result.val.header.entry = LeAt(24, 8)
        /\ result.val.header.phoff = LeAt(32, 8)
        /\ result.val.header.shoff = LeAt(40, 8)
        /\ result.val.header.flags = LeAt(48, 4)
        /\ result.val.header.ehsize = LeAt(52, 2)
        /\ result.val.header.phentsize = LeAt(54, 2)
        /\ result.val.header.phnum = LeAt(56, 2)
        /\ result.val.header.shentsize = LeAt(58, 2)
        /\ result.val.header.shnum = LeAt(60, 2)
        /\ result.val.header.shstrndx = LeAt(62, 2)
        /\ result.val.data = SubSeq(stream, 65, Len(stream))

\* A header whose forty bytes from offset 24 on all differ has been decoded,
\* with a trailing buffer that is not empty.
C8_Witness ==
    /\ pc = "done" /\ result.ok /\ ioErr = NoIoErr
    /\ Len(stream) > 64
    /\ \A i, j \in 24..63 : i # j => ByteAt(i) # ByteAt(j)

-----------------------------------------------------------------------------
(* C9 *)

\* The caller pulls from the program header iterator in this step.
ProgramPull == phIt.made /\ phOut' # phOut

\* The numeral of the w little-endian bytes at offset off of the window of
\* an iterator.
WindowLe(it, off, w) == [i \in 1..w |-> data[it.start + off + w + 1 - i]]

\* No bit of the numeral raw is set where `outside` has a bit.
NoBitOf(raw, outside) == IsZero(NumAnd(raw, outside))

\* The pull of this step appended item to out.
Yields(out, outNext, item) == outNext = Append(out, Some(item))

\* The pull of this step appended an Ok item whose flags are raw.
YieldsFlags(out, outNext, raw) ==
    /\ Len(outNext) = Len(out) + 1
    /\ outNext[Len(outNext)].some
    /\ outNext[Len(outNext)].item.ok
    /\ outNext[Len(outNext)].item.val.flags = raw

\* C9 as stated: a pull that decodes a section header entry of known type
\* yields Ok exactly when the raw flags have no bit outside 0xFF000FF7, the
\* flag set then having exactly the raw bits, and yields the error
\* "a section has invalid flags: 0x<raw in hex>" otherwise; the same rule
\* holds of a program header entry, over 0xF0000007.
C9_FlagsRule ==
    [][/\ (SectionPull /\ shIt.pos < 64 * shIt.len
            /\ Len(data) - shIt.start - shIt.pos >= 64
            /\ SectionType_try_from(WindowLe(shIt, shIt.pos + 4, 4)).ok)
          => LET raw == WindowLe(shIt, shIt.pos + 8, 8)
             IN  IF NoBitOf(raw, <<255, 255, 255, 255, 0, 255, 240, 8>>)
                 THEN YieldsFlags(shOut, shOut', raw)
                 ELSE Yields(shOut, shOut',
                             Err("a section has invalid flags: 0x"
                                 \o FormatHex(raw)))
       /\ (ProgramPull /\ phIt.pos < 56 * phIt.len
            /\ Len(data) - phIt.start - phIt.pos >= 56
            /\ SegmentType_try_from(WindowLe(phIt, phIt.pos, 4)).ok)
          => LET raw == WindowLe(phIt, phIt.pos + 4, 4)
             IN  IF NoBitOf(raw, <<15, 255, 255, 248>>)
                 THEN YieldsFlags(phOut, phOut', raw)
                 ELSE Yields(phOut, phOut',
                             Err("a section has invalid flags: 0x"
                                 \o FormatHex(raw)))]_vars

-----------------------------------------------------------------------------
(* C10 *)

\* The source's last error was an Interrupted one reported to read_to_end:
\* the header had been decoded by then.
InterruptedInTail == ioErr.kind = "Interrupted" /\ header # NoHeader

-----------------------------------------------------------------------------
(* C11 *)

\* C11: while the source reports no I/O error, however it splits its bytes
\* into reads, the identification buffer holds the first bytes of the stream
\* and the second buffer the bytes from offset 16 on, and what from_reader
\* returns is a function of the stream alone; a stream of k < 16 bytes gives
\* "ident contains k bytes", and a stream of 16..63 bytes whose identification
\* block is accepted gives "invalid ELF header".
C11_ChunkingIndependent ==
    ioErr = NoIoErr =>
        /\ Len(ident) <= IdentSize
        /\ ident = Slice(stream, 0, Len(ident))
        /\ Len(left) <= HeaderSize - IdentSize
        /\ left = Slice(stream, IdentSize, IdentSize + Len(left))
        /\ pc \in {"left", "tail"} => Len(ident) = IdentSize
        /\ pc = "tail" => Len(left) = HeaderSize - IdentSize
        /\ pc = "done" =>
            /\ result = FromStream(stream)
            /\ Len(stream) < 16 =>
                result = Err("ident contains " \o FormatDec(Len(stream))
                             \o " bytes")
            /\ (/\ Len(stream) >= 16
                /\ Len(stream) < 64
                /\ IdentCheck(Slice(stream, 0, 16)).ok)
               => result = Err("invalid ELF header")

\* from_reader returned an ObjectFile with a trailing buffer after the source
\* made a short read while the header was being read.
C11_Witness ==
    /\ pc = "done"
    /\ ioErr = NoIoErr
    /\ chunked
    /\ result.ok
    /\ result.val.data # <<>>

-----------------------------------------------------------------------------
(* C12 *)

\* Two sequences of pull results agree as far as both go.
Agree(a, b) == \A i \in 1..Min(Len(a), Len(b)) : a[i] = b[i]

\* C12: in every step, the results of the pulls on the two section header
\* iterators agree item by item, and so do those of the two program header
\* iterators, whether the second iterator borrows the same ObjectFile or an
\* independent construction from the same stream and however the pulls are
\* interleaved; and once from_reader has returned an ObjectFile, no step
\* changes its header or its trailing buffer.
C12_IteratorsIndependent ==
    [][/\ Agree(shOut', shOut2')
       /\ Agree(phOut', phOut2')
       /\ HasObject => /\ result' = result
                       /\ header' = header
                       /\ data' = data]_vars

\* Two section header iterators have each been pulled twice and yielded the
\* same two different entries; the second borrows an independent
\* construction.
C12_Witness ==
    /\ shIt.made /\ shIt2.made
    /\ shIt2.of = "other"
    /\ Len(shOut) = 2 /\ Len(shOut2) = 2
    /\ shOut[1].some /\ shOut[1].item.ok
    /\ shOut[2].some /\ shOut[2].item.ok
    /\ shOut[1] # shOut[2]
    /\ shOut2 = shOut

-----------------------------------------------------------------------------
(* C13 *)

\* The cursor of the iterator `it`, whose pulls returned `out`, over entries
\* of `size` bytes: a multiple of size, the Ok items yielded times size,
\* within the declared table and within the window.
CursorInRange(it, out, size) ==
    it.made =>
        /\ it.pos % size = 0
        /\ it.pos = size * OkItems(out, Len(out))
        /\ it.pos <= size * it.len
        /\ it.pos <= Len(data) - it.start

\* One step seen from an iterator: it is made with pos = 0; a pull that
\* returns Ok moves pos on by size; any other pull, and any step that is not
\* a pull on it, leaves pos alone.
CursorStep(it, itNext, out, outNext, size) ==
    /\ (~it.made /\ itNext.made) => itNext.pos = 0
    /\ it.made =>
        /\ itNext.made
        /\ IF outNext # out
              /\ outNext[Len(outNext)].some /\ outNext[Len(outNext)].item.ok
           THEN itNext.pos = it.pos + size
           ELSE itNext.pos = it.pos

\* The item the pull of this step appended, if Ok, has the fields of the
\* window bytes at the cursor of before the pull: the numeral at offOne, of
\* wOne bytes, as its flags, and the one at offTwo, of 8 bytes, as its field
\* named last.
DecodedAtCursor(it, out, outNext, offOne, wOne, offTwo, last) ==
    (/\ it.made
     /\ outNext # out
     /\ outNext[Len(outNext)].some /\ outNext[Len(outNext)].item.ok)
    => LET e == outNext[Len(outNext)].item.val
       IN  /\ e.flags = WindowLe(it, it.pos + offOne, wOne)
           /\ e[last] = WindowLe(it, it.pos + offTwo, 8)

\* C13: in both iterators pos starts at 0, a pull that returns Ok decodes
\* the entry at [pos, pos + width) of the window and advances pos by one
\* width (64 for sections, 56 for segments), a pull that returns an error or
\* None leaves pos unchanged, and nothing else moves pos; pos is always a
\* multiple of the width, the width times the number of Ok items yielded, at
\* most width * declared count and at most the window length.
C13_CursorAdvancesOnOkOnly ==
    [][/\ CursorStep(shIt, shIt', shOut, shOut', 64)
       /\ CursorStep(phIt, phIt', phOut, phOut', 56)
       /\ DecodedAtCursor(shIt, shOut, shOut', 8, 8, 56, "entsize")
       /\ DecodedAtCursor(phIt, phOut, phOut', 4, 4, 48, "align")
       /\ CursorInRange(shIt', shOut', 64)
       /\ CursorInRange(phIt', phOut', 56)]_vars

\* The program header iterator yielded its first entry, then returned an
\* error for the second on two pulls running, the cursor staying at 56.
C13_Witness ==
    /\ phIt.made /\ Len(phOut) = 3
    /\ phOut[1].some /\ phOut[1].item.ok
    /\ phOut[2].some /\ ~phOut[2].item.ok
    /\ phOut[2] # Some(SegmentSizeError)
    /\ phOut[3] = phOut[2]
    /\ phIt.pos = 56

-----------------------------------------------------------------------------
(* C14 *)

\* C14 as stated: for every ObjectFile that from_reader returns, calling
\* section_headers() or program_headers() and pulling items never indexes
\* out of range (nothing panics), and the window of every iterator starts
\* within 0..=len(trailing buffer), whatever the table offsets are.
C14_NoOutOfRangeAccess ==
    /\ ~panicked
    /\ shIt.made => shIt.start \in 0..Len(data)
    /\ phIt.made => phIt.start \in 0..Len(data)

====
